---- MODULE Spec2Model ----
(***************************************************************************)
(* Quadrature.py: Riemann, Trapezoid and Simpson quadrature over an        *)
(* Interval of Partitions.                                                 *)
(*                                                                         *)
(* Numbers are exact rationals [n, d] (d > 0, lowest terms): Python's      *)
(* float arithmetic without its rounding.  Interval, Partition, Method,    *)
(* Point and AnnotatedFunction live in Interval.py, which Quadrature.py    *)
(* imports; they are modelled from their documented contract.              *)
(***************************************************************************)
EXTENDS Integers, Sequences, FiniteSets, TLC

\* Largest number of partitions of an interval.
MaxParts == 4
\* Largest number of method calls (points, calc, parabolas, graph) on one instance.
MaxCalls == 3

----------------------------------------------------------------------------
(* Rational arithmetic (the float operators of the source). *)

Abs(i) == IF i < 0 THEN -i ELSE i

RECURSIVE GCD(_, _)
GCD(a, b) == IF b = 0 THEN a ELSE GCD(b, a % b)

Rat(num, den) ==
    LET g == GCD(Abs(num), den)
    IN  [n |-> num \div g, d |-> den \div g]

FromInt(i) == [n |-> i, d |-> 1]

RNeg(a) == [n |-> -a.n, d |-> a.d]

RAdd(a, b) ==
    LET g == GCD(a.d, b.d)
    IN  Rat(a.n * (b.d \div g) + b.n * (a.d \div g), (a.d \div g) * b.d)

RSub(a, b) == RAdd(a, RNeg(b))

RMul(a, b) ==
    LET g1 == GCD(Abs(a.n), b.d)
        g2 == GCD(Abs(b.n), a.d)
    IN  Rat((a.n \div g1) * (b.n \div g2), (a.d \div g2) * (b.d \div g1))

\* a / b for b # 0 (every divisor of the source is 2, 3 or a positive length).
RDiv(a, b) ==
    RMul(a, IF b.n < 0 THEN [n |-> -b.d, d |-> -b.n] ELSE [n |-> b.d, d |-> b.n])

RLt(a, b) == a.n * b.d < b.n * a.d

RLe(a, b) == a.n * b.d <= b.n * a.d

RAbs(a) == [n |-> Abs(a.n), d |-> a.d]

----------------------------------------------------------------------------
(* Interval.py: Partition, Interval, Point, AnnotatedFunction, Method. *)

\* Partition.length = end - start
PLength(p) == RSub(p.end, p.start)

\* Interval.start, Interval.end; an interval is the ordered
\* sequence of its partitions.
IStart(iv) == iv[1].start
IEnd(iv) == iv[Len(iv)].end

Point(px, py) == [x |-> px, y |-> py]

\* AnnotatedFunction.func: the polynomial c0 + c1*x + c2*x^2 with
\* coefficients f = <<c0, c1, c2>>.
Func(f, x) ==
    RAdd(FromInt(f[1]), RAdd(RMul(FromInt(f[2]), x), RMul(FromInt(f[3]), RMul(x, x))))

Methods == {"left", "right", "midpoint", "random"}

\* Method.choose(f, partition): r is the state of the random source, which a
\* Random choice reads (start when 0, the midpoint when 1).
MethodX(m, p, r) ==
    CASE m = "left" -> p.start
      [] m = "right" -> p.end
      [] m = "midpoint" -> RDiv(RAdd(p.start, p.end), FromInt(2))
      [] m = "random" -> RAdd(p.start, RMul(Rat(r, 2), PLength(p)))

MethodChoose(m, f, p, r) == Point(MethodX(m, p, r), Func(f, MethodX(m, p, r)))

\* The random source after k draws: only a Random method draws.
Draw(m, r, k) == IF m = "random" THEN (r + k) % 2 ELSE r

----------------------------------------------------------------------------
(* Inputs. *)

\* Partition lengths: 1 and 2 differ by more than the tolerance, 1 and
\* 1025/1024 by less.
Lens == {FromInt(1), FromInt(2), Rat(1025, 1024)}

RECURSIVE Breaks(_, _, _)
Breaks(s, ls, k) ==
    IF k = 0 THEN s ELSE RAdd(Breaks(s, ls, k - 1), ls[k])

\* The interval starting at s whose partitions have the lengths ls.
MkInterval(s, ls) ==
    [i \in 1..Len(ls) |-> [start |-> Breaks(s, ls, i - 1), end |-> Breaks(s, ls, i)]]

Intervals ==
    { MkInterval(FromInt(0), ls) :
        ls \in UNION { [1..k -> Lens] : k \in 1..MaxParts } }

\* An interval whose breakpoints are all integers.
Coarse(iv) == \A i \in 1..Len(iv) : iv[i].end.d = 1

LinearFuncs == { <<0, 1, 0>>, <<1, -2, 0>>, <<3, 0, 0>> }
SquareFuncs == { <<0, 0, 1>> }

\* Squares are sampled on integer breakpoints only, which keeps every
\* product within TLC's integers.
Inputs ==
    (LinearFuncs \X Intervals)
        \cup (SquareFuncs \X { iv \in Intervals : Coarse(iv) })

----------------------------------------------------------------------------
(* Quadrature.py: pure parts. *)

Min(a, b) == IF a < b THEN a ELSE b

\* Python's index normalisation for a slice bound: negative counts from the
\* end, then clamped to 0..len.
SliceBound(len, i) ==
    LET j == IF i < 0 THEN i + len ELSE i
    IN  IF j < 0 THEN 0 ELSE IF j > len THEN len ELSE j

\* s[a:b:st] for st > 0, with Python's 0-based bounds.
PySlice(s, a, b, st) ==
    LET na == SliceBound(Len(s), a)
        nb == SliceBound(Len(s), b)
        cnt == IF nb > na THEN (nb - na + st - 1) \div st ELSE 0
    IN  [k \in 1..cnt |-> s[na + (k - 1) * st + 1]]

\* Quadrature.points: one chosen point per partition, in iteration order.
QuadraturePoints(slf, r) ==
    [i \in 1..Len(slf.interval) |->
        MethodChoose(slf.method, slf.func, slf.interval[i], Draw(slf.method, r, i - 1))]

\* Trapezoid.points without the added end point.
TrapezoidPointsNoEnd(slf, r) == QuadraturePoints(slf, r)

\* Trapezoid.points: super().points plus the end point.
TrapezoidPoints(slf, r) ==
    Append(QuadraturePoints(slf, r),
           Point(IEnd(slf.interval), Func(slf.func, IEnd(slf.interval))))

\* Simpson.points: super().points plus the end point.
SimpsonPoints(slf, r) ==
    Append(QuadraturePoints(slf, r),
           Point(IEnd(slf.interval), Func(slf.func, IEnd(slf.interval))))

\* The loop of Riemann.calc over zip(interval, points), first k pairs.
RECURSIVE RiemannLoop(_, _, _)
RiemannLoop(iv, pts, k) ==
    IF k = 0 THEN FromInt(0)
    ELSE RAdd(RiemannLoop(iv, pts, k - 1), RMul(PLength(iv[k]), pts[k].y))

\* Riemann.calc pairing partition k with the point of partition n+1-k.
RiemannCalcReversed(slf, r) ==
    LET pts == QuadraturePoints(slf, r)
        rev == [i \in 1..Len(pts) |-> pts[Len(pts) + 1 - i]]
    IN  RiemannLoop(slf.interval, rev, Min(Len(slf.interval), Len(rev)))

RiemannCalc(slf, r) ==
    LET pts == QuadraturePoints(slf, r)
    IN  RiemannLoop(slf.interval, pts, Min(Len(slf.interval), Len(pts)))

\* The loop of Trapezoid.calc, first k partitions.
RECURSIVE TrapezoidLoop(_, _, _)
TrapezoidLoop(f, iv, k) ==
    IF k = 0 THEN FromInt(0)
    ELSE LET h == PLength(iv[k])
             a == Func(f, iv[k].start)
             b == Func(f, iv[k].end)
         IN  RAdd(TrapezoidLoop(f, iv, k - 1),
                  RMul(RDiv(RAdd(a, b), FromInt(2)), h))

\* Trapezoid.calc taking every partition to be as long as the first.
RECURSIVE TrapezoidLoopUniform(_, _, _)
TrapezoidLoopUniform(f, iv, k) ==
    IF k = 0 THEN FromInt(0)
    ELSE RAdd(TrapezoidLoopUniform(f, iv, k - 1),
              RMul(RDiv(RAdd(Func(f, iv[k].start), Func(f, iv[k].end)), FromInt(2)),
                   PLength(iv[1])))

TrapezoidCalcUniform(slf) ==
    TrapezoidLoopUniform(slf.func, slf.interval, Len(slf.interval))

TrapezoidCalc(slf) == TrapezoidLoop(slf.func, slf.interval, Len(slf.interval))

\* area += w * point.y for the first k points of pts.
RECURSIVE WeightedLoop(_, _, _, _)
WeightedLoop(area, w, pts, k) ==
    IF k = 0 THEN area
    ELSE RAdd(WeightedLoop(area, w, pts, k - 1), RMul(FromInt(w), pts[k].y))

\* Simpson.calc with the even slice points[2::2], which runs into the last point.
SimpsonCalcOpenSlice(slf, r) ==
    LET pts == SimpsonPoints(slf, r)
        area0 == RAdd(pts[1].y, pts[Len(pts)].y)
        odd == PySlice(pts, 1, -1, 2)
        even == PySlice(pts, 2, Len(pts), 2)
        area1 == WeightedLoop(area0, 4, odd, Len(odd))
        area2 == WeightedLoop(area1, 2, even, Len(even))
    IN  RDiv(RMul(area2, PLength(slf.interval[1])), FromInt(3))

SimpsonCalc(slf, r) ==
    LET pts == SimpsonPoints(slf, r)
        area0 == RAdd(pts[1].y, pts[Len(pts)].y)
        odd == PySlice(pts, 1, -1, 2)
        even == PySlice(pts, 2, -1, 2)
        area1 == WeightedLoop(area0, 4, odd, Len(odd))
        area2 == WeightedLoop(area1, 2, even, Len(even))
    IN  RDiv(RMul(area2, PLength(slf.interval[1])), FromInt(3))

\* zip_longest's fillvalue=0.
FillValue == [fillvalue |-> 0]

\* chunk_iter(iters, chunk_size): consecutive chunks, the last one filled.
chunk_iter(s, size) ==
    [k \in 1..((Len(s) + size - 1) \div size) |->
        [j \in 1..size |->
            IF (k - 1) * size + j <= Len(s) THEN s[(k - 1) * size + j] ELSE FillValue]]

\* Simpson.parabolas with B = (y2 - y0)/size.
ParabolaSteepB(f, size, p0, p1) ==
    LET y0 == Func(f, p0.start)
        y1 == Func(f, p1.start)
        y2 == Func(f, p1.end)
        two == FromInt(2)
    IN  << RDiv(RAdd(RSub(y0, RMul(two, y1)), y2), RMul(two, RMul(size, size))),
           RDiv(RSub(y2, y0), size),
           y1 >>

\* One (A, B, C) of Simpson.parabolas for the chunk (p0, p1).
Parabola(f, size, p0, p1) ==
    LET y0 == Func(f, p0.start)
        y1 == Func(f, p1.start)
        y2 == Func(f, p1.end)
        two == FromInt(2)
    IN  << RDiv(RAdd(RSub(y0, RMul(two, y1)), y2), RMul(two, RMul(size, size))),
           RDiv(RSub(y2, y0), RMul(two, size)),
           y1 >>

\* Simpson.parabolas: raised stands for the AttributeError of reading .start
\* of a fill value.
SimpsonParabolas(slf) ==
    LET chunks == chunk_iter(slf.interval, 2)
        size == PLength(slf.interval[1])
    IN  IF \E k \in 1..Len(chunks) : FillValue \in { chunks[k][1], chunks[k][2] }
        THEN [raised |-> TRUE, value |-> << >>]
        ELSE [raised |-> FALSE,
              value |-> [k \in 1..Len(chunks) |->
                            Parabola(slf.func, size, chunks[k][1], chunks[k][2])]]

\* np.linspace(a, b, num)
linspace(a, b, num) ==
    [i \in 1..num |->
        IF num = 1 THEN a
        ELSE RAdd(a, RMul(FromInt(i - 1), RDiv(RSub(b, a), FromInt(num - 1))))]

\* Trapezoid.graph: what is handed to the axes.
TrapezoidGraph(slf, r) ==
    LET pts == TrapezoidPoints(slf, r)
        y_coor == [i \in 1..Len(pts) |-> pts[i].y]
        x_coor == [i \in 1..Len(pts) |-> pts[i].x]
    IN  [ vlines |-> [i \in 1..Len(pts) |-> <<pts[i].x, FromInt(0), pts[i].y>>],
          plot_x |-> x_coor,
          plot_y |-> y_coor,
          fill_x |-> linspace(IStart(slf.interval), IEnd(slf.interval), Len(y_coor)),
          fill_y |-> y_coor,
          hlines |-> <<FromInt(0), IStart(slf.interval), IEnd(slf.interval)>> ]

\* 10**-3 of Simpson.__init__
Tolerance == Rat(1, 1000)

\* len(interval.partitions) % 2 != 0
OddCount(iv) == Len(iv) % 2 # 0

\* all((interval[0].length - i.length < 10**-3 for i in interval))
EqualLengths(iv) ==
    \A i \in 1..Len(iv) : RLt(RSub(PLength(iv[1]), PLength(iv[i])), Tolerance)

OddMessage == "Simson's rule only works with an even number of partitions."
LengthMessage == "All partition lengths must be the same."

\* Simpson.__init__ with the two checks in the other order.
SimpsonCheckLengthFirst(iv) ==
    IF ~EqualLengths(iv) THEN LengthMessage
    ELSE IF OddCount(iv) THEN OddMessage
    ELSE ""

\* The ValueError Simpson.__init__ raises for iv, "" when it raises none.
SimpsonCheck(iv) ==
    IF OddCount(iv) THEN OddMessage
    ELSE IF ~EqualLengths(iv) THEN LengthMessage
    ELSE ""

----------------------------------------------------------------------------
(* The state: one construction and the calls made on its instance. *)

VARIABLES
    cls,          \* the class being constructed
    func,         \* constructor argument func
    interval,     \* constructor argument interval
    method,       \* constructor argument method (Riemann only)
    self,         \* the instance's attributes func, interval, method
    pc,           \* "new", "constructed" or "raised"
    err,          \* the message of the ValueError raised, "" when none
    rng,          \* the state of the random source of Method.random
    evals,        \* evaluations of func.func made by the latest operation
    calls,        \* method calls made on the instance
    retPoints,    \* what the latest read of points returned, <<>> before
    retCalc,      \* <<what the latest calc() returned>>, <<>> before
    retParabolas, \* <<what the latest parabolas() returned>>, <<>> before
    drawn         \* <<what the latest Trapezoid.graph drew>>, <<>> before

vars == << cls, func, interval, method, self, pc, err, rng, evals, calls,
           retPoints, retCalc, retParabolas, drawn >>

args == << cls, func, interval, method >>
rets == << retPoints, retCalc, retParabolas, drawn >>

Classes == {"Riemann", "Trapezoid", "Simpson"}

\* No attribute assigned yet.
Unassigned == [func |-> << >>, interval |-> << >>, method |-> ""]

Init ==
    /\ cls \in Classes
    /\ \E inp \in Inputs : func = inp[1] /\ interval = inp[2]
    /\ method \in (IF cls = "Riemann" THEN Methods ELSE {""})
    /\ rng \in (IF method = "random" THEN {0, 1} ELSE {0})
    /\ self = Unassigned
    /\ pc = "new"
    /\ err = ""
    /\ evals = 0
    /\ calls = 0
    /\ retPoints = << >>
    /\ retCalc = << >>
    /\ retParabolas = << >>
    /\ drawn = << >>

\* Quadrature.__init__(self, func, interval, method)
QuadratureInit(f, iv, m) == [func |-> f, interval |-> iv, method |-> m]

\* Riemann(func, interval, method): the inherited constructor.
RiemannNew ==
    /\ pc = "new"
    /\ cls = "Riemann"
    /\ self' = QuadratureInit(func, interval, method)
    /\ pc' = "constructed"
    /\ evals' = 0
    /\ UNCHANGED << args, err, rng, calls, rets >>

\* Trapezoid(func, interval)
TrapezoidNew ==
    /\ pc = "new"
    /\ cls = "Trapezoid"
    /\ self' = QuadratureInit(func, interval, "left")
    /\ pc' = "constructed"
    /\ evals' = 0
    /\ UNCHANGED << args, err, rng, calls, rets >>

\* Simpson(func, interval)
SimpsonNew ==
    /\ pc = "new"
    /\ cls = "Simpson"
    /\ IF SimpsonCheck(interval) # ""
       THEN /\ err' = SimpsonCheck(interval)
            /\ pc' = "raised"
            /\ self' = self
       ELSE /\ self' = QuadratureInit(func, interval, "left")
            /\ pc' = "constructed"
            /\ err' = err
    /\ evals' = 0
    /\ UNCHANGED << args, rng, calls, rets >>

\* The points property of the instance's class.
PointsOf(c, slf, r) ==
    CASE c = "Riemann" -> QuadraturePoints(slf, r)
      [] c = "Trapezoid" -> TrapezoidPoints(slf, r)
      [] c = "Simpson" -> SimpsonPoints(slf, r)

\* calc() of the instance's class.
CalcOf(c, slf, r) ==
    CASE c = "Riemann" -> RiemannCalc(slf, r)
      [] c = "Trapezoid" -> TrapezoidCalc(slf)
      [] c = "Simpson" -> SimpsonCalc(slf, r)

\* Evaluations of func.func one read of points makes.
PointsEvals(c, slf) == Len(slf.interval) + (IF c = "Riemann" THEN 0 ELSE 1)

\* Evaluations of func.func one calc() makes.
CalcEvals(c, slf) ==
    CASE c = "Riemann" -> PointsEvals(c, slf)
      [] c = "Trapezoid" -> 2 * Len(slf.interval)
      [] c = "Simpson" -> 4 * PointsEvals(c, slf)

\* quad.points
ReadPoints ==
    /\ pc = "constructed"
    /\ calls < MaxCalls
    /\ calls' = calls + 1
    /\ retPoints' = PointsOf(cls, self, rng)
    /\ rng' = Draw(self.method, rng, Len(self.interval))
    /\ evals' = PointsEvals(cls, self)
    /\ UNCHANGED << args, self, pc, err, retCalc, retParabolas, drawn >>

\* calc() keeping its running total on the instance between calls.
CallCalcAccumulating ==
    /\ pc = "constructed"
    /\ calls < MaxCalls
    /\ calls' = calls + 1
    /\ retCalc' = IF retCalc = << >> THEN << CalcOf(cls, self, rng) >>
                  ELSE << RAdd(retCalc[1], CalcOf(cls, self, rng)) >>
    /\ rng' = Draw(self.method, rng, Len(self.interval))
    /\ evals' = CalcEvals(cls, self)
    /\ UNCHANGED << args, self, pc, err, retPoints, retParabolas, drawn >>

\* quad.calc()
CallCalc ==
    /\ pc = "constructed"
    /\ calls < MaxCalls
    /\ calls' = calls + 1
    /\ retCalc' = << CalcOf(cls, self, rng) >>
    /\ rng' = Draw(self.method, rng, Len(self.interval))
    /\ evals' = CalcEvals(cls, self)
    /\ UNCHANGED << args, self, pc, err, retPoints, retParabolas, drawn >>

\* simpson.parabolas()
CallParabolas ==
    /\ pc = "constructed"
    /\ cls = "Simpson"
    /\ calls < MaxCalls
    /\ calls' = calls + 1
    /\ retParabolas' = << SimpsonParabolas(self) >>
    /\ evals' = 3 * Len(chunk_iter(self.interval, 2))
    /\ UNCHANGED << args, self, pc, err, rng, retPoints, retCalc, drawn >>

\* trapezoid.graph(ax)
CallGraph ==
    /\ pc = "constructed"
    /\ cls = "Trapezoid"
    /\ calls < MaxCalls
    /\ calls' = calls + 1
    /\ drawn' = << TrapezoidGraph(self, rng) >>
    /\ evals' = 3 * PointsEvals(cls, self)
    /\ UNCHANGED << args, self, pc, err, rng, retPoints, retCalc, retParabolas >>

Next ==
    \/ RiemannNew
    \/ TrapezoidNew
    \/ SimpsonNew
    \/ ReadPoints
    \/ CallCalc
    \/ CallParabolas
    \/ CallGraph

Spec == Init /\ [][Next]_vars

----------------------------------------------------------------------------
(* Vocabulary of the properties. *)

\* The i-th breakpoint of iv, i in 0..Len(iv).
BreakPoint(iv, i) == IF i = 0 THEN IStart(iv) ELSE iv[i].end

\* Every partition of iv is exactly as long as the first.
Uniform(iv) == \A i \in 1..Len(iv) : PLength(iv[i]) = PLength(iv[1])

\* Some partition's length differs from the first's by more than 1e-3.
BeyondTolerance(iv) ==
    \E i \in 1..Len(iv) :
        RLt(Tolerance, RAbs(RSub(PLength(iv[1]), PLength(iv[i]))))

\* The interval [0, 2] cut into two partitions of length 1.
ZeroTwo == MkInterval(FromInt(0), << FromInt(1), FromInt(1) >>)

Identity == << 0, 1, 0 >>
Square == << 0, 0, 1 >>

\* The sum of term[i] over i in lo..hi.
RECURSIVE RSum(_, _, _)
RSum(term, lo, hi) ==
    IF hi < lo THEN FromInt(0) ELSE RAdd(RSum(term, lo, hi - 1), term[hi])

\* A*t^2 + B*t + C
EvalParabola(abc, t) ==
    RAdd(RAdd(RMul(abc[1], RMul(t, t)), RMul(abc[2], t)), abc[3])

----------------------------------------------------------------------------
(* C1: Simpson(func, interval) raises ValueError for every interval with an
   even number of partitions in which some partition's length differs from
   the first's by more than 1e-3, be it shorter or longer than the first. *)
C1_UnequalRejected ==
    (cls = "Simpson" /\ pc # "new" /\ ~OddCount(interval) /\ BeyondTolerance(interval))
        => (pc = "raised" /\ err = LengthMessage)

(* C2: Simpson(func, interval) raises ValueError for every interval with an
   odd number of partitions, whatever their lengths, and the odd-count check
   comes first: the error is the odd-count one even when the lengths differ. *)
C2_OddRejected ==
    (cls = "Simpson" /\ pc # "new" /\ OddCount(interval))
        => (pc = "raised" /\ err = OddMessage /\ self = Unassigned)

C2_Witness ==
    /\ cls = "Simpson"
    /\ pc = "raised"
    /\ Len(interval) = 3
    /\ ~EqualLengths(interval)

(* C3: construction never evaluates the user function, a rejected Simpson
   construction assigns no attribute, and no constructed Simpson has an odd
   partition count or a partition whose length differs from the first's by
   more than 1e-3. *)
C3_ValidatedBeforeSampling ==
    /\ (pc # "new" /\ calls = 0) => evals = 0
    /\ pc = "raised" => self = Unassigned
    /\ (cls = "Simpson" /\ pc = "constructed")
          => (~OddCount(self.interval) /\ ~BeyondTolerance(self.interval))

(* C4: for n partitions, points has n entries for Riemann, one inside each
   partition in partition order, and n+1 entries for Trapezoid and Simpson:
   the left end of each partition in order, then (interval.end, f(interval.end)). *)
C4_PointsShape ==
    retPoints # << >> =>
        LET n == Len(interval)
        IN  IF cls = "Riemann"
            THEN /\ Len(retPoints) = n
                 /\ \A i \in 1..n :
                       /\ RLe(interval[i].start, retPoints[i].x)
                       /\ RLe(retPoints[i].x, interval[i].end)
                       /\ retPoints[i].y = Func(func, retPoints[i].x)
            ELSE /\ Len(retPoints) = n + 1
                 /\ \A i \in 1..n :
                       retPoints[i] =
                           Point(interval[i].start, Func(func, interval[i].start))
                 /\ retPoints[n + 1] = Point(IEnd(interval), Func(func, IEnd(interval)))

C4_Witness ==
    /\ cls = "Trapezoid"
    /\ Len(interval) = 3
    /\ ~Uniform(interval)
    /\ Len(retPoints) = 4

(* C5: for a constructed Simpson over n (even) partitions of common length h,
   with y_i = f(i-th breakpoint), calc() = h/3 * [y_0 + y_n + 4 * (sum of y_i,
   i odd) + 2 * (sum of y_i, i even and 0 < i < n)]; x^2 on [0,2] with n = 2
   gives 8/3. *)
C5_SimpsonRule ==
    (cls = "Simpson" /\ retCalc # << >>) =>
        /\ Uniform(interval) =>
              LET n == Len(interval)
                  h == PLength(interval[1])
                  y == [i \in 0..n |-> Func(func, BreakPoint(interval, i))]
                  w == [i \in 0..n |->
                          RMul(FromInt(IF i = 0 \/ i = n THEN 1
                                       ELSE IF i % 2 = 1 THEN 4 ELSE 2), y[i])]
              IN  retCalc[1] = RMul(RDiv(h, FromInt(3)), RSum(w, 0, n))
        /\ (func = Square /\ interval = ZeroTwo) => retCalc[1] = Rat(8, 3)

C5_Witness ==
    /\ cls = "Simpson"
    /\ retCalc # << >>
    /\ Len(interval) = 4
    /\ Uniform(interval)
    /\ func = Square

(* C6: for every interval, uniform or not, Trapezoid.calc() is the sum over
   the partitions of (f(start) + f(end))/2 * length; it is exact for linear
   f, and f(x) = x on [0,2] with n = 2 gives 2. *)
C6_TrapezoidRule ==
    (cls = "Trapezoid" /\ retCalc # << >>) =>
        LET n == Len(interval)
            b == [i \in 0..n |-> BreakPoint(interval, i)]
            t == [i \in 1..n |->
                    RDiv(RMul(RAdd(Func(func, b[i - 1]), Func(func, b[i])),
                              RSub(b[i], b[i - 1])),
                         FromInt(2))]
        IN  /\ retCalc[1] = RSum(t, 1, n)
            /\ func[3] = 0 =>
                  retCalc[1] =
                      RAdd(RMul(FromInt(func[1]), RSub(b[n], b[0])),
                           RDiv(RMul(FromInt(func[2]),
                                     RSub(RMul(b[n], b[n]), RMul(b[0], b[0]))),
                                FromInt(2)))
            /\ (func = Identity /\ interval = ZeroTwo) => retCalc[1] = FromInt(2)

C6_Witness ==
    /\ cls = "Trapezoid"
    /\ retCalc # << >>
    /\ Len(interval) >= 3
    /\ ~Uniform(interval)
    /\ func = Identity

(* C7: for every interval and deterministic Method, Riemann.calc() is the sum
   over the partitions of length * y of the point the Method chooses in that
   same partition; f(x) = x on [0,2] with n = 2 gives 1 with Left and 3 with
   Right. *)
C7_RiemannSum ==
    (cls = "Riemann" /\ method # "random" /\ retCalc # << >>) =>
        LET n == Len(interval)
            t == [i \in 1..n |->
                    RMul(RSub(interval[i].end, interval[i].start),
                         Func(func, MethodX(method, interval[i], 0)))]
        IN  /\ retCalc[1] = RSum(t, 1, n)
            /\ (func = Identity /\ interval = ZeroTwo /\ method = "left")
                  => retCalc[1] = FromInt(1)
            /\ (func = Identity /\ interval = ZeroTwo /\ method = "right")
                  => retCalc[1] = FromInt(3)

C7_Witness ==
    /\ cls = "Riemann"
    /\ method = "right"
    /\ retCalc # << >>
    /\ Len(interval) >= 3
    /\ ~Uniform(interval)
    /\ func = Identity

(* C8: for a Simpson over n (even) partitions of common length h, parabolas()
   returns n/2 triples in order, the k-th fitted to partitions 2k and 2k+1:
   A = (y0 - 2*y1 + y2)/(2*h^2), B = (y2 - y0)/(2*h), C = y1, and
   A*t^2 + B*t + C is y0, y1, y2 at t = -h, 0, h. *)
C8_Parabolas ==
    (cls = "Simpson" /\ retParabolas # << >> /\ Uniform(interval)) =>
        LET n == Len(interval)
            h == PLength(interval[1])
            ps == retParabolas[1].value
        IN  /\ ~retParabolas[1].raised
            /\ 2 * Len(ps) = n
            /\ \A k \in 1..Len(ps) :
                  LET y0 == Func(func, BreakPoint(interval, 2 * k - 2))
                      y1 == Func(func, BreakPoint(interval, 2 * k - 1))
                      y2 == Func(func, BreakPoint(interval, 2 * k))
                  IN  /\ RMul(ps[k][1], RMul(FromInt(2), RMul(h, h)))
                            = RAdd(RSub(y0, RAdd(y1, y1)), y2)
                      /\ RMul(ps[k][2], RMul(FromInt(2), h)) = RSub(y2, y0)
                      /\ ps[k][3] = y1
                      /\ EvalParabola(ps[k], RNeg(h)) = y0
                      /\ EvalParabola(ps[k], FromInt(0)) = y1
                      /\ EvalParabola(ps[k], h) = y2

C8_Witness ==
    /\ cls = "Simpson"
    /\ retParabolas # << >>
    /\ Len(interval) = 4
    /\ Uniform(interval)
    /\ func = Square
    /\ Len(retParabolas[1].value) = 2

(* C9: with a deterministic Method, no call of points, calc() or parabolas()
   changes the instance's func, interval or method, and once points or calc()
   has returned a value every later call returns that same value. *)
C9_FrameAndIdempotence ==
    [][ (pc = "constructed" /\ self.method # "random") =>
            /\ self' = self
            /\ retPoints # << >> => retPoints' = retPoints
            /\ retCalc # << >> => retCalc' = retCalc ]_vars

C9_Witness ==
    /\ pc = "constructed"
    /\ self.method = "midpoint"
    /\ calls = MaxCalls
    /\ retCalc # << >>
    /\ retPoints = << >>
    /\ Len(interval) >= 3
    /\ ~Uniform(interval)

(* C10: for every interval, uniform or not, the region Trapezoid.graph fills
   has the x-coordinates of the polyline's points (the partition starts, then
   interval.end), each paired with that point's y. *)
C10_FillUnderPolyline ==
    drawn # << >> =>
        /\ drawn[1].fill_x = drawn[1].plot_x
        /\ drawn[1].fill_y = drawn[1].plot_y
        /\ drawn[1].plot_x = [i \in 1..(Len(interval) + 1) |-> BreakPoint(interval, i - 1)]

====
